---- MODULE Spec2Model ----
(***************************************************************************)
(* Model of gcages.parallelisation: run_parallel (serial path and process  *)
(* pool path) and assert_only_working_on_variable_unit_variations.         *)
(*                                                                         *)
(* The process pool is concurrent.futures.ProcessPoolExecutor and the      *)
(* retrieval loop iterates concurrent.futures.as_completed; both are       *)
(* modelled by what the standard library does at the call sites:           *)
(*   - submit() queues a work item (FIFO); the first one starts the       *)
(*     worker processes;                                                   *)
(*   - a worker takes the oldest queued item, runs it, and the future      *)
(*     becomes FINISHED with a result or an exception;                     *)
(*   - as_completed() first yields the futures that are already FINISHED   *)
(*     when it is first iterated, taken from a set (no order), and then    *)
(*     the futures its waiter collects, in the order they finish;          *)
(*   - leaving the with-block calls shutdown(wait=True), which returns     *)
(*     once every submitted work item has run and every worker has exited. *)
(***************************************************************************)
EXTENDS Integers, Sequences, FiniteSets, TLC

\* ---- bounds of the model ----
MaxLen == 3
MaxProcs == 2
MaxRows == 2

\* ---- input domains ----
Items == {0, 1}
ArgVals == {1}
\* a callable is identified by the set of items on which it raises
Funcs == {{}, {1}, {0, 1}}
Contexts == {"None", "explicit"}

None == "None"

VARIABLES
  pc,              \* position of the caller inside run_parallel
  forkAvail,       \* platform: does multiprocessing offer the fork context
  iterable_input,  \* argument: the work items
  n_processes,     \* argument
  mp_context,      \* argument (None or a caller-supplied context)
  func_to_call,    \* argument
  args,            \* argument: the shared extra argument
  ctx,             \* local mp_context after lines 116-120
  requested,       \* get_context() requests made by this call, in order
  pools,           \* every ProcessPoolExecutor created so far
  futures,         \* local futures (one record per submitted task)
  completed,       \* task indices in the order their futures finished
  ac_initial,      \* as_completed: futures finished when iteration began
  ac_finished,     \* as_completed: already-finished futures not yet yielded
  ac_pending,      \* as_completed: futures not finished at first iteration
  ac_waiter,       \* as_completed: waiter.finished_futures
  ac_batch,        \* as_completed: the batch being yielded
  retrieved,       \* task indices in the order future.result() was called
  res,             \* local res
  exc,             \* exception propagating out of run_parallel (or None)
  ret,             \* value returned by run_parallel (or None)
  invoked,         \* the invocations of func_to_call begun, in order
  progress,        \* the tqdm bars: items counted per phase, retrieval total
  indf_names,      \* guard: index level names of the table
  indf_rows,       \* guard: index rows of the table
  guard_out        \* guard: outcome of the last guard call

argVars == <<iterable_input, n_processes, mp_context, func_to_call, args>>
runnerVars == <<pc, forkAvail, argVars, ctx, requested, pools, futures, completed,
                ac_initial, ac_finished, ac_pending, ac_waiter, ac_batch,
                retrieved, res, exc, ret, invoked, progress>>
guardVars == <<indf_names, indf_rows, guard_out>>
vars == <<runnerVars, guardVars>>

\* ---- helpers ----
Range(s) == {s[i] : i \in DOMAIN s}

RECURSIVE SeqsUpTo(_, _)
SeqsUpTo(S, n) ==
  IF n = 0 THEN {<<>>}
  ELSE LET shorter == SeqsUpTo(S, n - 1)
       IN shorter \cup {Append(s, x) : s \in {t \in shorter : Len(t) = n - 1}, x \in S}

RECURSIVE BagOfSeq(_)
BagOfSeq(s) ==
  IF s = <<>> THEN [x \in {} |-> 0]
  ELSE LET rest == BagOfSeq(Tail(s))
           h == Head(s)
       IN [x \in (DOMAIN rest) \cup {h} |->
             IF x \in DOMAIN rest
             THEN (IF x = h THEN rest[x] + 1 ELSE rest[x])
             ELSE 1]

\* ---- the callable ----
Ok(v) == [kind |-> "ok", val |-> v]
Raise(e) == [kind |-> "raise", val |-> e]
\* the guard has not been run on the table as it is
NotCalled == [kind |-> "not_called", val |-> None]
\* a future that is not FINISHED holds neither a value nor an exception
NoOutcome == [kind |-> "unset", val |-> None]

\* func_to_call(inv, *args, **kwargs): one invocation of callable f
Invoke(f, inv, a) ==
  IF inv \in f THEN Raise(<<"TaskError", inv>>) ELSE Ok(2 * inv + a)

\* ---- multiprocessing.get_context, as lines 118 and 120 use it ----
\* get_context("fork") raises ValueError where the platform has no fork;
\* get_context() returns the platform default and does not raise
GetContext(method, fa) ==
  IF method = "fork"
  THEN (IF fa THEN Ok("fork") ELSE Raise(<<"ValueError", "fork">>))
  ELSE Ok("platform_default")

SelectContextAlwaysFork(mpc, fa) ==
  LET first == GetContext("fork", fa)
  IN IF first.kind = "ok"
     THEN [ctx |-> first.val, requested |-> <<"fork">>, raised |-> None]
     ELSE [ctx |-> GetContext(None, fa).val,
           requested |-> <<"fork", "default">>, raised |-> None]

SelectContextNoFallback(mpc, fa) ==
  IF mpc # None
  THEN [ctx |-> mpc, requested |-> <<>>, raised |-> None]
  ELSE LET first == GetContext("fork", fa)
       IN IF first.kind = "ok"
          THEN [ctx |-> first.val, requested |-> <<"fork">>, raised |-> None]
          ELSE [ctx |-> None, requested |-> <<"fork">>, raised |-> first.val]

\* lines 116-120: the context the pool is given, the get_context requests
\* made on the way, and the exception that escapes (None: no exception)
SelectContext(mpc, fa) ==
  IF mpc # None
  THEN [ctx |-> mpc, requested |-> <<>>, raised |-> None]
  ELSE LET first == GetContext("fork", fa)
       IN IF first.kind = "ok"
          THEN [ctx |-> first.val, requested |-> <<"fork">>, raised |-> None]
          ELSE [ctx |-> GetContext(None, fa).val,
                requested |-> <<"fork", "default">>, raised |-> None]

\* ---- result accumulation ----
SerialAccumulateReversed(r, v) == <<v>> \o r

\* lines 110-113: the list comprehension appends in iteration order
SerialAccumulate(r, v) == Append(r, v)

RetrievalAccumulateDistinct(r, v) == IF v \in Range(r) THEN r ELSE Append(r, v)

\* lines 138-145: the list comprehension appends in retrieval order
RetrievalAccumulate(r, v) == Append(r, v)

FutureResultOrDefault(fut) ==
  IF fut.outcome.kind = "raise" THEN Ok(None) ELSE fut.outcome

\* line 139, future.result(): the task's value, or its exception re-raised
FutureResult(fut) == fut.outcome

\* ---- the pool ----
NewPoolOversized(n, c) ==
  [current |-> TRUE, max_workers |-> n + 1, mp_context |-> c,
   state |-> "open", workers |-> 0]

\* lines 123-125: ProcessPoolExecutor(max_workers=n_processes,
\* mp_context=mp_context); current: created by the call in progress;
\* workers: the number of its worker processes that are alive
NewPool(n, c) ==
  [current |-> TRUE, max_workers |-> n, mp_context |-> c,
   state |-> "open", workers |-> 0]

Released(p) == p.state = "shutdown" /\ p.workers = 0

CurPool == pools[Len(pools)]
HasPool == Len(pools) > 0 /\ CurPool.current /\ CurPool.state = "open"

Queued == {t \in DOMAIN futures : futures[t].state = "PENDING"}
Running == {t \in DOMAIN futures : futures[t].state = "RUNNING"}
Finished == {t \in DOMAIN futures : futures[t].state = "FINISHED"}

ShutdownNoWait(fs) == TRUE

\* shutdown(wait=True) at the end of the with-block (lines 123-145) returns
\* once no submitted work item is left queued or running
ShutdownMayReturn(fs) == \A t \in DOMAIN fs : fs[t].state = "FINISHED"

PoolLeftOpen(p) == p

\* the pool after __exit__: shut down, every worker process joined
PoolAfterExit(p) == [p EXCEPT !.state = "shutdown", !.workers = 0]

WaiterBatchReversed(w) == [i \in DOMAIN w |-> w[Len(w) + 1 - i]]

\* as_completed: the waiter's finished_futures are yielded in finishing order
WaiterBatch(w) == w

Min(S) == CHOOSE x \in S : \A y \in S : x <= y

\* one invocation of func_to_call: the position of the work item in the
\* input, the item and the extra arguments passed with it
Invocation(i, inv, a) == [index |-> i, item |-> inv, args |-> a]

\* ---- progress bars: lines 112, 133-135, 140-144 ----
\* no bar has counted anything
NoProgress == [serial |-> 0, submit |-> 0, retrieve |-> 0, total |-> 0]

\* the loops iterate over tqdm(iterable): when n items have been counted,
\* the item handed to the loop body is the next one of the wrapped iterable
TqdmYield(it, n) == it[n + 1]

TqdmUpdateTwice(n) == n + 2

\* tqdm counts an item once the loop body has processed it
TqdmUpdate(n) == n + 1

\* ---- run_parallel: lines 48-147 ----
NoCall == pc \in {"idle", "returned", "raised"}

\* the executors that still hold a resource
RECURSIVE Unreleased(_)
Unreleased(ps) ==
  IF ps = <<>> THEN <<>>
  ELSE IF Released(Head(ps)) THEN Unreleased(Tail(ps))
       ELSE <<Head(ps)>> \o Unreleased(Tail(ps))

CallAlwaysPooled ==
  /\ pc = "idle"
  /\ pools' = Unreleased(pools)
  /\ \E inp \in SeqsUpTo(Items, MaxLen), n \in 1..MaxProcs,
        m \in Contexts, f \in Funcs, a \in ArgVals :
       /\ iterable_input' = inp
       /\ n_processes' = n
       /\ mp_context' = m
       /\ func_to_call' = f
       /\ args' = a
       /\ pc' = "select_context"
  /\ UNCHANGED <<forkAvail, ctx, requested, futures, completed,
                 ac_finished, ac_pending, ac_waiter, ac_batch, retrieved, res,
                 exc, ret,
                 ac_initial, guardVars, invoked, progress>>

\* entry of run_parallel: bind the arguments, fresh locals; line 108
\* branches. Executors of earlier calls that hold nothing any more are
\* forgotten, one that still holds worker processes stays.
Call ==
  /\ pc = "idle"
  /\ pools' = Unreleased(pools)
  /\ \E inp \in SeqsUpTo(Items, MaxLen), n \in 1..MaxProcs,
        m \in Contexts, f \in Funcs, a \in ArgVals :
       /\ iterable_input' = inp
       /\ n_processes' = n
       /\ mp_context' = m
       /\ func_to_call' = f
       /\ args' = a
       /\ pc' = IF n = 1 THEN "serial" ELSE "select_context"
  /\ UNCHANGED <<forkAvail, ctx, requested, futures, completed,
                 ac_finished, ac_pending, ac_waiter, ac_batch, retrieved, res,
                 exc, ret,
                 ac_initial, guardVars, invoked, progress>>

SerialInvokeContinue ==
  /\ pc = "serial"
  /\ Len(res) < Len(iterable_input)
  /\ LET out == Invoke(func_to_call, iterable_input[Len(res) + 1], args)
     IN /\ res' = SerialAccumulate(res, out.val)
        /\ IF out.kind = "ok"
           THEN /\ progress' = [progress EXCEPT !.serial = TqdmUpdate(@)]
                /\ UNCHANGED exc
           ELSE /\ exc' = out.val
                /\ UNCHANGED progress
        /\ UNCHANGED pc
  /\ invoked' = Append(invoked, Invocation(Len(res) + 1,
                                           iterable_input[Len(res) + 1], args))
  /\ UNCHANGED <<forkAvail, argVars, ctx, requested, pools, futures, completed,
                 ac_finished, ac_pending, ac_waiter, ac_batch, retrieved, ret,
                 ac_initial, guardVars>>

\* lines 110-113: one iteration of the serial list comprehension
SerialInvoke ==
  /\ pc = "serial"
  /\ Len(res) < Len(iterable_input)
  /\ LET out == Invoke(func_to_call,
                        TqdmYield(iterable_input, progress.serial), args)
     IN IF out.kind = "ok"
        THEN /\ res' = SerialAccumulate(res, out.val)
             /\ progress' = [progress EXCEPT !.serial = TqdmUpdate(@)]
             /\ UNCHANGED <<pc, exc>>
        ELSE /\ pc' = "raised"
             /\ exc' = out.val
             /\ UNCHANGED <<res, progress>>
  /\ invoked' = Append(invoked,
                       Invocation(Len(res) + 1,
                                  TqdmYield(iterable_input, progress.serial),
                                  args))
  /\ UNCHANGED <<forkAvail, argVars, ctx, requested, pools, futures, completed,
                 ac_finished, ac_pending, ac_waiter, ac_batch, retrieved, ret,
                 ac_initial, guardVars>>

\* line 147 on the serial path: return tuple(res)
SerialReturn ==
  /\ pc = "serial"
  /\ Len(res) = Len(iterable_input)
  /\ ret' = res
  /\ pc' = "returned"
  /\ UNCHANGED <<forkAvail, argVars, ctx, requested, pools, futures, completed,
                 ac_finished, ac_pending, ac_waiter, ac_batch, retrieved, res,
                 exc, ac_initial, guardVars, invoked, progress>>

\* lines 116-120
ChooseContext ==
  /\ pc = "select_context"
  /\ LET s == SelectContext(mp_context, forkAvail)
     IN /\ ctx' = s.ctx
        /\ requested' = s.requested
        /\ IF s.raised = None
           THEN pc' = "create_pool" /\ UNCHANGED exc
           ELSE pc' = "raised" /\ exc' = s.raised
  /\ UNCHANGED <<forkAvail, argVars, pools, futures, completed, ac_finished,
                 ac_pending, ac_waiter, ac_batch, retrieved, res, ret,
                 ac_initial, guardVars, invoked, progress>>

\* lines 123-125: entering the with-block creates the executor
CreatePool ==
  /\ pc = "create_pool"
  /\ pools' = Append(pools, NewPool(n_processes, ctx))
  /\ pc' = "submit"
  /\ UNCHANGED <<forkAvail, argVars, ctx, requested, futures, completed,
                 ac_finished, ac_pending, ac_waiter, ac_batch, retrieved, res,
                 exc, ret,
                 ac_initial, guardVars, invoked, progress>>

\* lines 126-136: one executor.submit; the first one starts the worker
\* processes (an executor that starts them on demand, up to max_workers,
\* runs a subset of the schedules of one that starts them all)
Submit ==
  /\ pc = "submit"
  /\ Len(futures) < Len(iterable_input)
  /\ futures' = Append(futures,
                       [item |-> TqdmYield(iterable_input, progress.submit),
                        args |-> args, state |-> "PENDING", outcome |-> NoOutcome])
  /\ progress' = [progress EXCEPT !.submit = TqdmUpdate(@)]
  /\ pools' = [pools EXCEPT ![Len(pools)].workers = CurPool.max_workers]
  /\ UNCHANGED <<pc, forkAvail, argVars, ctx, requested, completed, ac_finished,
                 ac_pending, ac_waiter, ac_batch, retrieved, res, exc, ret,
                 ac_initial, guardVars, invoked>>

BeginRetrievalEager ==
  /\ pc = "submit"
  /\ Len(futures) >= 1
  /\ ac_initial' = Finished
  /\ ac_finished' = Finished
  /\ ac_pending' = DOMAIN futures \ Finished
  /\ ac_waiter' = <<>>
  /\ ac_batch' = <<>>
  /\ progress' = [progress EXCEPT !.total = Len(futures)]
  /\ pc' = "retrieve"
  /\ UNCHANGED <<forkAvail, argVars, ctx, requested, pools, futures, completed,
                 retrieved, res, exc, ret, guardVars, invoked>>

\* line 141: as_completed(futures) is first iterated once every item has
\* been submitted; it splits the futures into finished and pending ones
BeginRetrieval ==
  /\ pc = "submit"
  /\ Len(futures) = Len(iterable_input)
  /\ ac_initial' = Finished
  /\ ac_finished' = Finished
  /\ ac_pending' = DOMAIN futures \ Finished
  /\ ac_waiter' = <<>>
  /\ ac_batch' = <<>>
  /\ progress' = [progress EXCEPT !.total = Len(futures)]
  /\ pc' = "retrieve"
  /\ UNCHANGED <<forkAvail, argVars, ctx, requested, pools, futures, completed,
                 retrieved, res, exc, ret, guardVars, invoked>>

RetrieveTaskContinue(t) ==
  /\ retrieved' = Append(retrieved, t)
  /\ LET out == FutureResult(futures[t])
     IN IF out.kind = "ok"
        THEN /\ res' = RetrievalAccumulate(res, out.val)
             /\ progress' = [progress EXCEPT !.retrieve = TqdmUpdate(@)]
             /\ UNCHANGED <<pc, exc>>
        ELSE /\ exc' = IF exc = None THEN out.val ELSE exc
             /\ UNCHANGED <<pc, res, progress>>

\* line 139: future.result() on the future as_completed yielded
RetrieveTask(t) ==
  /\ retrieved' = Append(retrieved, t)
  /\ LET out == FutureResult(futures[t])
     IN IF out.kind = "ok"
        THEN /\ res' = RetrievalAccumulate(res, out.val)
             /\ progress' = [progress EXCEPT !.retrieve = TqdmUpdate(@)]
             /\ UNCHANGED <<pc, exc>>
        ELSE /\ pc' = "exit_raise"
             /\ exc' = out.val
             /\ UNCHANGED <<res, progress>>

\* as_completed yields a future that was finished when iteration began
YieldFinished ==
  /\ pc = "retrieve"
  /\ \E t \in ac_finished :
       /\ ac_finished' = ac_finished \ {t}
       /\ RetrieveTask(t)
  /\ UNCHANGED <<forkAvail, argVars, ctx, requested, pools, futures, completed,
                 ac_pending, ac_waiter, ac_batch, ret,
                 ac_initial, guardVars, invoked>>

\* as_completed wakes up and takes what its waiter has collected
TakeBatch ==
  /\ pc = "retrieve"
  /\ ac_finished = {}
  /\ ac_batch = <<>>
  /\ ac_pending # {}
  /\ ac_waiter # <<>>
  /\ ac_batch' = WaiterBatch(ac_waiter)
  /\ ac_waiter' = <<>>
  /\ UNCHANGED <<pc, forkAvail, argVars, ctx, requested, pools, futures, completed,
                 ac_finished, ac_pending, retrieved, res, exc, ret,
                 ac_initial, guardVars, invoked, progress>>

\* as_completed yields the next future of the batch
YieldBatch ==
  /\ pc = "retrieve"
  /\ ac_finished = {}
  /\ ac_batch # <<>>
  /\ ac_batch' = Tail(ac_batch)
  /\ ac_pending' = ac_pending \ {Head(ac_batch)}
  /\ RetrieveTask(Head(ac_batch))
  /\ UNCHANGED <<forkAvail, argVars, ctx, requested, pools, futures, completed,
                 ac_finished, ac_waiter, ret,
                 ac_initial, guardVars, invoked>>

\* as_completed is exhausted: the retrieval comprehension ends
EndRetrieval ==
  /\ pc = "retrieve"
  /\ ac_finished = {}
  /\ ac_batch = <<>>
  /\ ac_pending = {}
  /\ pc' = "exit_return"
  /\ UNCHANGED <<forkAvail, argVars, ctx, requested, pools, futures, completed,
                 ac_finished, ac_pending, ac_waiter, ac_batch, retrieved, res,
                 exc, ret,
                 ac_initial, guardVars, invoked, progress>>

\* leaving the with-block (normally or with an exception in flight):
\* executor.__exit__ -> shutdown(wait=True); then line 147 or the re-raise
ExitPool ==
  /\ pc \in {"exit_return", "exit_raise"}
  /\ ShutdownMayReturn(futures)
  /\ pools' = [pools EXCEPT ![Len(pools)] = PoolAfterExit(@)]
  /\ IF pc = "exit_return"
     THEN pc' = "returned" /\ ret' = res
     ELSE pc' = "raised" /\ UNCHANGED ret
  /\ UNCHANGED <<forkAvail, argVars, ctx, requested, futures, completed,
                 ac_finished, ac_pending, ac_waiter, ac_batch, retrieved, res,
                 exc, ac_initial, guardVars, invoked, progress>>

\* a worker process takes the oldest queued work item
WorkerStart ==
  /\ HasPool
  /\ Queued # {}
  /\ Cardinality(Running) < CurPool.workers
  /\ futures' = [futures EXCEPT ![Min(Queued)].state = "RUNNING"]
  /\ invoked' = Append(invoked, Invocation(Min(Queued),
                                           futures[Min(Queued)].item,
                                           futures[Min(Queued)].args))
  /\ UNCHANGED <<pc, forkAvail, argVars, ctx, requested, pools, completed,
                 ac_finished, ac_pending, ac_waiter, ac_batch, retrieved, res,
                 exc, ret,
                 ac_initial, guardVars, progress>>

WorkerFinishNoNotify ==
  /\ HasPool
  /\ \E t \in Running :
       /\ futures' = [futures EXCEPT
                        ![t].state = "FINISHED",
                        ![t].outcome = Invoke(func_to_call, futures[t].item,
                                              futures[t].args)]
       /\ completed' = Append(completed, t)
  /\ UNCHANGED <<pc, forkAvail, argVars, ctx, requested, pools, ac_finished,
                 ac_pending, ac_batch, retrieved, res, exc, ret, ac_waiter,
                 ac_initial, guardVars, invoked, progress>>

WorkerFinishRetry ==
  /\ HasPool
  /\ \E t \in Running :
       LET out == Invoke(func_to_call, futures[t].item, futures[t].args)
       IN IF out.kind = "raise"
          THEN /\ futures' = [futures EXCEPT ![t].state = "PENDING"]
               /\ UNCHANGED <<completed, ac_waiter>>
          ELSE /\ futures' = [futures EXCEPT ![t].state = "FINISHED",
                                             ![t].outcome = out]
               /\ completed' = Append(completed, t)
               /\ ac_waiter' = IF pc = "retrieve" /\ t \in ac_pending
                               THEN Append(ac_waiter, t) ELSE ac_waiter
  /\ UNCHANGED <<pc, forkAvail, argVars, ctx, requested, pools, ac_finished,
                 ac_pending, ac_batch, retrieved, res, exc, ret,
                 ac_initial, guardVars, invoked, progress>>

\* a worker process finishes its work item: the future becomes FINISHED and
\* an installed as_completed waiter is notified
WorkerFinish ==
  /\ HasPool
  /\ \E t \in Running :
       /\ futures' = [futures EXCEPT
                        ![t].state = "FINISHED",
                        ![t].outcome = Invoke(func_to_call, futures[t].item,
                                              futures[t].args)]
       /\ completed' = Append(completed, t)
       /\ ac_waiter' = IF pc = "retrieve" /\ t \in ac_pending
                       THEN Append(ac_waiter, t) ELSE ac_waiter
  /\ UNCHANGED <<pc, forkAvail, argVars, ctx, requested, pools, ac_finished,
                 ac_pending, ac_batch, retrieved, res, exc, ret,
                 ac_initial, guardVars, invoked, progress>>

\* the caller takes the outcome; the frame of run_parallel and its locals
\* are gone, the executor it created is no longer the current call's
CallerResumes ==
  /\ pc \in {"returned", "raised"}
  /\ pc' = "idle"
  /\ pools' = [i \in DOMAIN pools |-> [pools[i] EXCEPT !.current = FALSE]]
  /\ iterable_input' = <<>>
  /\ n_processes' = 1
  /\ mp_context' = None
  /\ func_to_call' = {}
  /\ args' = 0
  /\ ctx' = None
  /\ requested' = <<>>
  /\ futures' = <<>>
  /\ completed' = <<>>
  /\ ac_initial' = {}
  /\ ac_finished' = {}
  /\ ac_pending' = {}
  /\ ac_waiter' = <<>>
  /\ ac_batch' = <<>>
  /\ retrieved' = <<>>
  /\ res' = <<>>
  /\ exc' = None
  /\ ret' = None
  /\ invoked' = <<>>
  /\ progress' = NoProgress
  /\ UNCHANGED <<forkAvail, guardVars>>

Init ==
  /\ pc = "idle"
  /\ forkAvail \in BOOLEAN
  /\ iterable_input = <<>>
  /\ n_processes = 1
  /\ mp_context = None
  /\ func_to_call = {}
  /\ args = 0
  /\ ctx = None
  /\ requested = <<>>
  /\ pools = <<>>
  /\ futures = <<>>
  /\ completed = <<>>
  /\ ac_initial = {}
  /\ ac_finished = {}
  /\ ac_pending = {}
  /\ ac_waiter = <<>>
  /\ ac_batch = <<>>
  /\ retrieved = <<>>
  /\ res = <<>>
  /\ exc = None
  /\ ret = None
  /\ invoked = <<>>
  /\ progress = NoProgress
  /\ indf_names = {}
  /\ indf_rows = <<>>
  /\ guard_out = NotCalled

Next ==
  \/ Call
  \/ SerialInvoke
  \/ SerialReturn
  \/ ChooseContext
  \/ CreatePool
  \/ Submit
  \/ BeginRetrieval
  \/ YieldFinished
  \/ TakeBatch
  \/ YieldBatch
  \/ EndRetrieval
  \/ ExitPool
  \/ WorkerStart
  \/ WorkerFinish
  \/ CallerResumes

Spec == Init /\ [][Next]_vars

\* ---- scheduling ----
\* the steps of the thread that called run_parallel: lines 108-147
MainThread ==
  \/ SerialInvoke
  \/ SerialReturn
  \/ ChooseContext
  \/ CreatePool
  \/ Submit
  \/ BeginRetrieval
  \/ YieldFinished
  \/ TakeBatch
  \/ YieldBatch
  \/ EndRetrieval
  \/ ExitPool

\* the calling thread keeps running, an idle worker process takes a queued
\* work item, and every invocation a worker has begun comes to an end; when
\* the caller calls run_parallel, or calls it again, is left open
FairSpec ==
  /\ Spec
  /\ WF_vars(MainThread)
  /\ WF_vars(WorkerStart)
  /\ WF_vars(WorkerFinish)

\* ---- assert_only_working_on_variable_unit_variations: lines 25-45 ----
\* A table is its index: level names and one row of level values per entry.
\* Tables whose index has no level besides variable and unit are left out.
Levels == {"model", "scenario", "variable", "unit"}
LevelVals == {"a", "b"}
Tables == {ns \in SUBSET Levels : ns \ {"variable", "unit"} # {}}

NonVUColsKeepUnit(names) == names \ {"variable"}

\* line 41: the index names other than variable and unit
NonVUCols(names) == names \ {"variable", "unit"}

Project(row, cols) == [c \in cols |-> row[c]]

\* line 42, indf.pix.unique(cols): the rows projected onto cols, each
\* distinct combination once, in order of first appearance
RECURSIVE PixUnique(_, _, _)
PixUnique(rows, cols, seen) ==
  IF rows = <<>> THEN seen
  ELSE LET c == Project(Head(rows), cols)
       IN PixUnique(Tail(rows), cols,
                    IF c \in Range(seen) THEN seen ELSE Append(seen, c))

\* lines 41-45: Ok(None) on return, the AssertionError with the observed
\* combinations when there is more than one
AssertOnlyWorkingOnVariableUnitVariations(names, rows) ==
  LET non_v_u_cols == NonVUCols(names)
      variations_in_other_cols == PixUnique(rows, non_v_u_cols, <<>>)
  IN IF Len(variations_in_other_cols) > 1
     THEN Raise(<<"AssertionError", variations_in_other_cols>>)
     ELSE Ok(None)

\* the caller builds a table
AddRow ==
  /\ Len(indf_rows) < MaxRows
  /\ \E r \in [indf_names -> LevelVals] : indf_rows' = Append(indf_rows, r)
  /\ guard_out' = NotCalled
  /\ UNCHANGED <<indf_names, runnerVars>>

\* the caller runs the guard on the table
CallGuard ==
  /\ guard_out' = AssertOnlyWorkingOnVariableUnitVariations(indf_names,
                                                            indf_rows)
  /\ UNCHANGED <<indf_names, indf_rows, runnerVars>>

InitGuard ==
  /\ pc = "idle"
  /\ forkAvail = TRUE
  /\ iterable_input = <<>>
  /\ n_processes = 1
  /\ mp_context = None
  /\ func_to_call = {}
  /\ args = 0
  /\ ctx = None
  /\ requested = <<>>
  /\ pools = <<>>
  /\ futures = <<>>
  /\ completed = <<>>
  /\ ac_initial = {}
  /\ ac_finished = {}
  /\ ac_pending = {}
  /\ ac_waiter = <<>>
  /\ ac_batch = <<>>
  /\ retrieved = <<>>
  /\ res = <<>>
  /\ exc = None
  /\ ret = None
  /\ invoked = <<>>
  /\ progress = NoProgress
  /\ indf_names \in Tables
  /\ indf_rows = <<>>
  /\ guard_out = NotCalled

NextGuard ==
  \/ AddRow
  \/ CallGuard

SpecGuard == InitGuard /\ [][NextGuard]_vars

\* ---- the serial path as a function: lines 108-113 and 147 ----
RECURSIVE SerialPath(_, _, _)
SerialPath(f, inp, a) ==
  IF inp = <<>> THEN Ok(<<>>)
  ELSE LET rest == SerialPath(f, SubSeq(inp, 1, Len(inp) - 1), a)
           last == Invoke(f, inp[Len(inp)], a)
       IN IF rest.kind = "raise" THEN rest
          ELSE IF last.kind = "raise" THEN last
          ELSE Ok(Append(rest.val, last.val))

SomeItemRaises ==
  \E i \in DOMAIN iterable_input :
    Invoke(func_to_call, iterable_input[i], args).kind = "raise"

Serial == n_processes = 1 /\ pc # "idle"
Parallel == n_processes > 1 /\ pc # "idle"

\* position of task t in the sequence s that holds it
Pos(s, t) == CHOOSE i \in DOMAIN s : s[i] = t

\* ---- C1 ----
\* C1: with n_processes == 1, a call that returns gives a tuple as long as
\* the input whose element i is func_to_call(input[i], *args), and a call
\* on which the callable never raises does not raise.
C1_SerialInOrder ==
  Serial =>
    /\ pc = "returned" =>
         /\ Len(ret) = Len(iterable_input)
         /\ \A i \in DOMAIN iterable_input :
              ret[i] = Invoke(func_to_call, iterable_input[i], args).val
    /\ pc = "raised" => SomeItemRaises

C1_Witness ==
  /\ Serial
  /\ pc = "returned"
  /\ Len(ret) >= 2
  /\ ret[1] # ret[2]

\* ---- C2 ----
\* C2: with n_processes > 1, under every interleaving of the workers, a call
\* that returns gives a tuple as long as the input whose multiset of
\* elements is that of the serial path on the same inputs, and a call on
\* which the callable never raises does not raise.
C2_ParallelSameMultiset ==
  Parallel =>
    /\ pc = "returned" =>
         /\ Len(ret) = Len(iterable_input)
         /\ SerialPath(func_to_call, iterable_input, args).kind = "ok"
         /\ BagOfSeq(ret) =
              BagOfSeq(SerialPath(func_to_call, iterable_input, args).val)
    /\ pc \in {"exit_raise", "raised"} => SomeItemRaises

\* a parallel call has returned three results, not in the serial order
C2_Witness ==
  /\ Parallel
  /\ pc = "returned"
  /\ Len(ret) >= 3
  /\ ret # SerialPath(func_to_call, iterable_input, args).val

\* ---- C3 ----
\* every step inside run_parallel, as opposed to the caller's steps
InsideCall ==
  \/ SerialInvoke
  \/ SerialReturn
  \/ ChooseContext
  \/ CreatePool
  \/ Submit
  \/ BeginRetrieval
  \/ YieldFinished
  \/ TakeBatch
  \/ YieldBatch
  \/ EndRetrieval
  \/ ExitPool
  \/ WorkerStart
  \/ WorkerFinish

TaskExceptions ==
  {Invoke(func_to_call, iterable_input[i], args).val :
     i \in {j \in DOMAIN iterable_input :
              Invoke(func_to_call, iterable_input[j], args).kind = "raise"}}

\* C3: when the callable raises for some work item, the call (serial or
\* parallel) never returns and hands out no result collection; it can only
\* end by raising, and what it raises is an exception the callable raised
\* for one of the items, as raised.
C3_FailurePropagates ==
  (pc # "idle" /\ SomeItemRaises) =>
    /\ pc # "returned"
    /\ ret = None
    /\ pc = "raised" => exc \in TaskExceptions
    /\ (pc = "raised" /\ Serial) =>
         exc = SerialPath(func_to_call, iterable_input, args).val
    /\ pc # "raised" => ENABLED InsideCall

\* a parallel call has raised a task's exception after two other results
\* had been collected
C3_Witness ==
  /\ Parallel
  /\ pc = "raised"
  /\ Len(res) >= 2
  /\ exc \in TaskExceptions
  /\ ret = None

\* ---- C4 ----
\* C4: no pool exists before the parallel path creates one; once the call
\* has returned or raised, its pool is shut down with no worker alive, also
\* after a task failure; no pool or worker of an earlier call exists.
C4_PoolCallScoped ==
  /\ pc \in {"serial", "select_context", "create_pool"} => pools = <<>>
  /\ NoCall => \A i \in DOMAIN pools : Released(pools[i])
  /\ \A i \in DOMAIN pools : ~pools[i].current => Released(pools[i])
  /\ Len(pools) <= 1

\* a parallel call has raised on a task failure after its workers ran two
\* tasks, and its pool is shut down with no worker left
C4_Witness ==
  /\ pc = "raised"
  /\ exc \in TaskExceptions
  /\ Len(pools) = 1
  /\ CurPool.current
  /\ Released(CurPool)
  /\ Len(completed) >= 2

\* ---- C5 ----
ExpectedContext ==
  IF mp_context # None THEN mp_context
  ELSE IF forkAvail THEN "fork" ELSE "platform_default"

\* C5: the pool's context is the caller's mp_context when one is supplied,
\* and the fork context is then never requested; otherwise fork when the
\* platform offers it; otherwise the platform default.
C5_ContextPolicy ==
  /\ \A i \in DOMAIN pools :
       pools[i].current => pools[i].mp_context = ExpectedContext
  /\ (Parallel /\ mp_context # None) => requested = <<>>
  /\ (Parallel /\ pc # "select_context" /\ mp_context = None) =>
       /\ requested[1] = "fork"
       /\ forkAvail => requested = <<"fork">>

\* a pool runs with the caller's context on a platform that has fork
C5_Witness ==
  /\ HasPool
  /\ forkAvail
  /\ mp_context = "explicit"
  /\ CurPool.mp_context = "explicit"
  /\ Running # {}

\* ---- C6 ----
\* C6: with n_processes > 1, no explicit context and no fork context on the
\* platform, the call raises nothing but a task's exception, runs its pool
\* with the platform default, and what it returns is the multiset of
\* results of the serial path.
C6_FallbackNeverRaises ==
  (Parallel /\ mp_context = None /\ ~forkAvail) =>
    /\ exc # None => exc \in TaskExceptions
    /\ pc \notin {"select_context", "raised", "returned"} => ENABLED InsideCall
    /\ pc \notin {"select_context"} => ctx = "platform_default"
    /\ pc = "returned" =>
         BagOfSeq(ret) =
           BagOfSeq(SerialPath(func_to_call, iterable_input, args).val)

\* a call without fork has fallen back and returned two results
C6_Witness ==
  /\ Parallel
  /\ mp_context = None
  /\ ~forkAvail
  /\ requested = <<"fork", "default">>
  /\ pc = "returned"
  /\ Len(ret) >= 2

\* ---- C7 ----
\* the distinct combinations of the levels other than variable and unit
Combinations ==
  {Project(indf_rows[i], indf_names \ {"variable", "unit"}) :
     i \in DOMAIN indf_rows}

\* C7: the guard raises exactly when the levels other than variable and
\* unit take more than one joint combination; what it raises is an
\* AssertionError that carries every observed combination, each once.
C7_GuardIffVariations ==
  guard_out.kind # "not_called" =>
    /\ guard_out.kind = "raise" <=> Cardinality(Combinations) > 1
    /\ guard_out.kind = "raise" =>
         /\ guard_out.val[1] = "AssertionError"
         /\ Range(guard_out.val[2]) = Combinations
         /\ Len(guard_out.val[2]) = Cardinality(Combinations)

\* the guard has raised on a table with two model values
C7_Witness ==
  /\ guard_out.kind = "raise"
  /\ "model" \in indf_names
  /\ "unit" \in indf_names
  /\ Len(indf_rows) = 2
  /\ indf_rows[1]["model"] # indf_rows[2]["model"]
  /\ indf_rows[1]["unit"] = indf_rows[2]["unit"]

\* ---- C8 ----
\* C8 as stated: the returned collection lists the outcomes in the order
\* they were retrieved, and that order is the tasks' completion order: when
\* task A completes before task B, A's result comes before B's.
C8_CompletionOrder ==
  Parallel =>
    /\ pc = "returned" =>
         ret = [i \in DOMAIN retrieved |-> futures[retrieved[i]].outcome.val]
    /\ \A i, j \in DOMAIN retrieved :
         i < j => Pos(completed, retrieved[i]) < Pos(completed, retrieved[j])

\* C8 amended: the returned collection lists the outcomes in the order
\* they were retrieved; every retrieved task had completed; a task that
\* completed after retrieval began is retrieved after every task that
\* completed before it (the tasks already complete when retrieval began
\* come first, in no particular order).
C8_RetrievalOrder ==
  Parallel =>
    /\ \A i \in DOMAIN retrieved : futures[retrieved[i]].state = "FINISHED"
    /\ pc = "returned" =>
         ret = [i \in DOMAIN retrieved |-> futures[retrieved[i]].outcome.val]
    /\ \A i, j \in DOMAIN retrieved :
         (i < j /\ retrieved[j] \notin ac_initial) =>
           Pos(completed, retrieved[i]) < Pos(completed, retrieved[j])

\* two tasks completed during retrieval, the later submitted one first, and
\* were returned in that order
C8_Witness ==
  /\ Parallel
  /\ pc = "returned"
  /\ \E i, j \in DOMAIN retrieved :
       /\ i < j
       /\ retrieved[i] > retrieved[j]
       /\ retrieved[i] \notin ac_initial
       /\ retrieved[j] \notin ac_initial
       /\ ret[i] # ret[j]

\* ---- C9 ----
FailedInCompletionOrder ==
  {i \in DOMAIN completed : futures[completed[i]].outcome.kind = "raise"}

\* C9 as stated: the exception surfaces when the failed task's outcome is
\* retrieved, nothing is retrieved after it, and retrieval order being
\* completion order, it is the exception of the first task to fail.
C9_FirstFailedToComplete ==
  (Parallel /\ pc \in {"exit_raise", "raised"}) =>
    /\ exc = futures[retrieved[Len(retrieved)]].outcome.val
    /\ Len(res) = Len(retrieved) - 1
    /\ retrieved[Len(retrieved)] = completed[Min(FailedInCompletionOrder)]

\* C9 amended: a task's exception surfaces only when its outcome is
\* retrieved; the call raises exactly one exception, that of the first
\* failed task in retrieval order (which need not be the first to fail),
\* and retrieves no outcome after it.
C9_FirstFailedRetrieved ==
  Parallel =>
    /\ exc # None <=> pc \in {"exit_raise", "raised"}
    /\ \A i \in DOMAIN retrieved :
         futures[retrieved[i]].outcome.kind = "raise" =>
           /\ i = Len(retrieved)
           /\ pc \in {"exit_raise", "raised"}
           /\ exc = futures[retrieved[i]].outcome.val
    /\ pc \in {"exit_raise", "raised"} =>
         /\ retrieved # <<>>
         /\ futures[retrieved[Len(retrieved)]].outcome.kind = "raise"
         /\ Len(res) = Len(retrieved) - 1

\* two tasks failed with different exceptions and the call raised the
\* exception of the one that failed second
C9_Witness ==
  /\ Parallel
  /\ pc = "raised"
  /\ Cardinality(FailedInCompletionOrder) >= 2
  /\ retrieved[Len(retrieved)] # completed[Min(FailedInCompletionOrder)]
  /\ exc # futures[completed[Min(FailedInCompletionOrder)]].outcome.val

\* ---- C10 ----
\* C10: no future is ever cancelled; when a parallel call has returned or
\* raised, every work item has been submitted and run to its result or its
\* exception, and the pool is gone: also the tasks that were queued or
\* running when a sibling's failure was retrieved.
C10_NoTaskCancelled ==
  Parallel =>
    /\ \A t \in DOMAIN futures :
         futures[t].state \in {"PENDING", "RUNNING", "FINISHED"}
    /\ pc \in {"returned", "raised"} =>
         /\ Len(futures) = Len(iterable_input)
         /\ \A t \in DOMAIN futures :
              /\ futures[t].state = "FINISHED"
              /\ futures[t].outcome =
                   Invoke(func_to_call, iterable_input[t], args)
         /\ \A i \in DOMAIN pools : Released(pools[i])

\* the call has raised, and two tasks that were unfinished when the failure
\* was retrieved have run to completion
C10_Witness ==
  /\ Parallel
  /\ pc = "raised"
  /\ \E t, u \in ac_pending :
       /\ t # u
       /\ {t, u} \cap (Range(ac_waiter) \cup Range(ac_batch)) = {}
       /\ futures[t].state = "FINISHED"
       /\ futures[u].state = "FINISHED"

\* ---- C11 ----
\* C11: in a parallel call the pool is created with n_processes workers at
\* most, and in every reachable state the number of tasks executing at the
\* same time is at most n_processes, however many work items have been
\* submitted.
C11_AtMostNProcessesRunning ==
  Parallel =>
    /\ Cardinality(Running) <= n_processes
    /\ \A i \in DOMAIN pools :
         pools[i].current =>
           /\ pools[i].max_workers = n_processes
           /\ pools[i].workers <= n_processes

\* every worker of the pool is executing a task while a submitted task
\* still waits in the queue
C11_Witness ==
  /\ Parallel
  /\ Cardinality(Running) = n_processes
  /\ Queued # {}
  /\ Len(futures) > n_processes

\* ---- C12 ----
\* the invocation of func_to_call on inv raises
Raises(inv) == Invoke(func_to_call, inv, args).kind = "raise"

\* C12: a serial call invokes the callable on the work items one after
\* another in input order, the k-th invocation being the one on the k-th
\* item and beginning only when all earlier ones have returned; when the
\* invocation on an item raises, the call fails there and no later item is
\* ever invoked.
C12_SerialStopsAtFailure ==
  Serial =>
    /\ \A k \in DOMAIN invoked :
         /\ invoked[k].index = k
         /\ invoked[k].item = iterable_input[k]
         /\ k < Len(invoked) => ~Raises(invoked[k].item)
    /\ Len(invoked) <= Len(iterable_input)
    /\ pc # "raised" => Len(invoked) = Len(res)
    /\ pc = "raised" =>
         /\ Len(invoked) = Len(res) + 1
         /\ Raises(invoked[Len(invoked)].item)
         /\ ~ENABLED SerialInvoke
    /\ (invoked # <<>> /\ Raises(invoked[Len(invoked)].item)) => pc = "raised"

\* a serial call has raised on its second item and a third item, on which
\* the callable would have returned, was never invoked
C12_Witness ==
  /\ Serial
  /\ pc = "raised"
  /\ Len(invoked) = 2
  /\ Len(iterable_input) = 3
  /\ ~Raises(iterable_input[3])

\* ---- C13 ----
\* C13: a parallel call submits exactly one task per work item, the t-th
\* task being the one for the t-th item, and finishes submitting before it
\* starts retrieving: while a work item is still to be submitted no outcome
\* has been retrieved and no task exception has been raised to the caller,
\* also when a task has already completed or failed by then.
C13_SubmitAllBeforeRetrieval ==
  Parallel =>
    /\ Len(futures) <= Len(iterable_input)
    /\ \A t \in DOMAIN futures :
         /\ futures[t].item = iterable_input[t]
         /\ futures[t].args = args
    /\ Len(futures) < Len(iterable_input) =>
         /\ pc \in {"select_context", "create_pool", "submit"}
         /\ retrieved = <<>>
         /\ res = <<>>
         /\ exc = None
         /\ ~ENABLED BeginRetrieval
    /\ pc \in {"retrieve", "exit_return", "exit_raise", "returned", "raised"} =>
         Len(futures) = Len(iterable_input)

\* a task has already failed while an item is still to be submitted, and
\* nothing has been retrieved or raised
C13_Witness ==
  /\ Parallel
  /\ pc = "submit"
  /\ Len(futures) < Len(iterable_input)
  /\ \E t \in DOMAIN futures :
       /\ futures[t].state = "FINISHED"
       /\ futures[t].outcome.kind = "raise"
  /\ retrieved = <<>>
  /\ exc = None

\* ---- C14 ----
\* C14: during one call, serial or parallel, the callable is invoked at
\* most once per work item, every time with the item and the extra
\* arguments the call was given; an invocation that failed is not repeated;
\* when the call has returned, every work item has been invoked exactly
\* once.
C14_InvokedAtMostOnce ==
  pc # "idle" =>
    /\ \A j, k \in DOMAIN invoked :
         invoked[j].index = invoked[k].index => j = k
    /\ \A k \in DOMAIN invoked :
         /\ invoked[k].index \in DOMAIN iterable_input
         /\ invoked[k].item = iterable_input[invoked[k].index]
         /\ invoked[k].args = args
    /\ pc = "returned" =>
         /\ Len(invoked) = Len(iterable_input)
         /\ {invoked[k].index : k \in DOMAIN invoked} = DOMAIN iterable_input

\* a parallel call over three items has raised the exception of a task, and
\* the callable has been invoked three times, once per item
C14_Witness ==
  /\ Parallel
  /\ pc = "raised"
  /\ Len(iterable_input) = 3
  /\ Len(invoked) = 3
  /\ \E k \in DOMAIN invoked : Raises(invoked[k].item)

\* ---- C15 ----
\* C15: with a finite input and invocations that all come to an end, under
\* fair scheduling of the calling thread and the worker processes every
\* call of run_parallel that has begun eventually terminates, by returning
\* or by raising: serial or parallel, with fewer or more work items than
\* processes, and with no work item at all.
C15_CallTerminates ==
  (pc \notin {"idle", "returned", "raised"}) ~> (pc \in {"returned", "raised"})

\* a parallel call with more work items than processes has returned
C15_Witness ==
  /\ Parallel
  /\ pc = "returned"
  /\ Len(iterable_input) > n_processes
  /\ Len(ret) = Len(iterable_input)

\* ---- C16 ----
\* C16: with n_processes == 1 the call creates no process pool and neither
\* selects nor asks for an execution context, whether or not mp_context was
\* supplied: no pool, context, context request, future or worker exists at
\* any point of a serial call, and what the call returns or raises is what
\* the serial loop over the input gives, in which mp_context plays no part.
C16_SerialIgnoresContext ==
  Serial =>
    /\ pools = <<>>
    /\ ctx = None
    /\ requested = <<>>
    /\ futures = <<>>
    /\ completed = <<>>
    /\ pc \in {"serial", "returned", "raised"}
    /\ ~ENABLED ChooseContext
    /\ ~ENABLED CreatePool
    /\ ~ENABLED WorkerStart
    /\ pc = "returned" =>
         Ok(ret) = SerialPath(func_to_call, iterable_input, args)
    /\ pc = "raised" =>
         Raise(exc) = SerialPath(func_to_call, iterable_input, args)

\* a serial call that was given an explicit mp_context has returned two
\* results or more
C16_Witness ==
  /\ Serial
  /\ mp_context = "explicit"
  /\ pc = "returned"
  /\ Len(ret) >= 2
  /\ pools = <<>>

\* ---- C17 ----
\* the phases that come after the submission loop
Submitted == pc \in {"retrieve", "exit_return", "exit_raise", "returned", "raised"}

\* C17: the progress bars only observe. The bar of the serial loop has
\* counted the items whose result has been collected, the bar of the
\* submission loop the tasks submitted, the bar of the retrieval loop the
\* results retrieved, each one more per item processed; the retrieval bar's
\* total is the number of submitted tasks; a bar of a phase the call does
\* not go through counts nothing; when the call has returned each bar of
\* its phases stands at the number of work items; and the returned results
\* are those of the loops over the bare input and the bare as_completed
\* iterator, in which no bar takes part.
C17_ProgressObservational ==
  /\ Serial =>
       /\ progress = [NoProgress EXCEPT !.serial = Len(res)]
       /\ pc = "returned" =>
            /\ progress.serial = Len(iterable_input)
            /\ Ok(ret) = SerialPath(func_to_call, iterable_input, args)
  /\ Parallel =>
       /\ progress.serial = 0
       /\ progress.submit = Len(futures)
       /\ progress.retrieve = Len(res)
       /\ progress.total = IF Submitted THEN Len(futures) ELSE 0
       /\ progress.retrieve <= Len(retrieved)
       /\ pc = "returned" =>
            /\ progress.submit = Len(iterable_input)
            /\ progress.retrieve = Len(iterable_input)
            /\ progress.total = Len(iterable_input)
            /\ ret = [i \in DOMAIN retrieved |->
                        Invoke(func_to_call, iterable_input[retrieved[i]],
                               args).val]

\* a parallel call over three items has returned, and both of its bars
\* stand at three of three
C17_Witness ==
  /\ Parallel
  /\ pc = "returned"
  /\ Len(ret) = 3
  /\ progress = [serial |-> 0, submit |-> 3, retrieve |-> 3, total |-> 3]

====
